---- MODULE Spec2Model ----
(***************************************************************************)
(* bored-topia-backend: the Express/MySQL game backend of src/api/index.js *)
(* (room assignment, score submission, referral bonus, ranked views) and   *)
(* the older single-connection server appended to it (and kept in          *)
(* src/unnamed/part_000).                                                  *)
(*                                                                         *)
(* Every request handler is an async function: it runs to its next `await` *)
(* and then other handlers may run.  A handler is modelled as a process    *)
(* whose steps are its store calls; the MySQL tables are the shared state. *)
(* Each single SQL statement is atomic; nothing in the source opens a      *)
(* transaction, so a handler's statements interleave with other handlers'. *)
(* The columns players.timestamp and rooms.room_name hold the server clock *)
(* and are read by no handler; they are not modelled.                      *)
(***************************************************************************)
EXTENDS Integers, Sequences, FiniteSets, TLC

----------------------------------------------------------------------------
(* Bounds of the model *)

\* number of request handlers that can be in flight at once
NumHandlers == 2
\* number of requests issued in one behaviour
MaxRequests == 3

----------------------------------------------------------------------------
(* Program constants *)

\* HAVING player_count < 48
Capacity == 48
\* connectionLimit: 10
connectionLimit == 10
\* ORDER BY p.score DESC LIMIT 11
LeaderboardLimit == 11
\* ORDER BY p.score DESC LIMIT 48
HallOfFameLimit == 48
\* results.length < 6, results[5]
BonusRank == 6
\* Math.floor(sixthPlayerScore / 10)
PositionBonusDivisor == 10

\* the inviter every invitation is recorded with
SampleInviter == "sample-inviter-address"

----------------------------------------------------------------------------
(* JavaScript values of a request body *)

\* a field missing from the JSON body
undefined == "<undefined>"

Undefined == [t |-> "undefined", v |-> 0]
Null == [t |-> "null", v |-> 0]
\* a non-numeric string such as "abc"
NonNumeric == [t |-> "string", v |-> 0]
Num(n) == [t |-> "number", v |-> n]

\* isNaN(x): Number(undefined) and Number("abc") are NaN, Number(null) is 0
isNaN(x) == x.t \in {"undefined", "string"}

\* x < 0 after ToNumber: comparisons with NaN are false, null is 0
LessThanZero(x) == x.t = "number" /\ x.v < 0

\* !x for a body value: undefined, null and 0 are falsy, "abc" is truthy
Falsy(x) == x.t \in {"undefined", "null"} \/ (x.t = "number" /\ x.v = 0)

\* !userAddress: a missing or empty address is falsy
FalsyAddress(a) == a = undefined \/ a = ""

\* x || 0 as bound to an integer column (only reached with isNaN(x) false)
OrZero(x) == IF Falsy(x) THEN 0 ELSE x.v

\* x ?? 0
NullishZero(x) == IF x.t \in {"undefined", "null"} THEN 0 ELSE x.v

\* Math.floor(x * 0.5) for an integer or null x
HalfFloor(x) == IF x.t = "number" THEN x.v \div 2 ELSE 0

Max(a, b) == IF a >= b THEN a ELSE b

----------------------------------------------------------------------------
(* Inputs *)

Procs == 1..NumHandlers

\* players whose requests are modelled
Wallets == {"a1", "a2"}

\* 47 further players, enough to fill a room to one below its capacity
FillerSeq ==
  << "f01", "f02", "f03", "f04", "f05", "f06", "f07", "f08", "f09", "f10",
     "f11", "f12", "f13", "f14", "f15", "f16", "f17", "f18", "f19", "f20",
     "f21", "f22", "f23", "f24", "f25", "f26", "f27", "f28", "f29", "f30",
     "f31", "f32", "f33", "f34", "f35", "f36", "f37", "f38", "f39", "f40",
     "f41", "f42", "f43", "f44", "f45", "f46", "f47" >>

----------------------------------------------------------------------------
(* State *)

VARIABLES
  players,      \* table players: userAddress -> row (userAddress is its unique key)
  rooms,        \* table rooms: id -> [status]
  pir,          \* table players_in_room: rows [userAddress, room_id] in insertion order
  invitations,  \* table invitations: rows [inviterAddress, inviteeAddress, bonusApplied]
  req,          \* the handler invocations: Procs -> request record
  leased,       \* connections of the pool that are checked out
  started,      \* requests issued so far
  upserts,      \* history: per address, the score upserts the store has executed
  awards        \* history: per invitee, the bonus UPDATEs that changed a row

vars == << players, rooms, pir, invitations, req, leased, started, upserts, awards >>

tables == << players, rooms, pir, invitations >>

AllAddresses == Wallets \cup {SampleInviter}

Idle ==
  [ op |-> "idle", pc |-> "done", userAddress |-> "", score |-> Undefined,
    tokenBalance |-> Undefined, paramRoomId |-> 0, roomId |-> 0, inviterAddress |-> "",
    conn |-> FALSE, status |-> 0, resRoomId |-> 0, resRows |-> << >> ]

NewRequest(op, a, s, tb) ==
  [ Idle EXCEPT !.op = op, !.pc = "getConnection", !.userAddress = a,
                !.score = s, !.tokenBalance = tb ]

\* a handler that has answered: its locals are gone; what is kept is the
\* request's route, its address or :roomId, and the response
Answered(r, code) ==
  [ Idle EXCEPT !.op = r.op, !.userAddress = r.userAddress,
                !.paramRoomId = r.paramRoomId, !.status = code ]

\* res.status(code) sent before any connection was taken
Rejected(op, a, s, tb, code) == Answered(NewRequest(op, a, s, tb), code)

\* a handler slot is free when no request was issued on it or its request was answered
Free(p) == req[p].pc = "done"

\* the slots are interchangeable: a new request takes the lowest free one
CanStart(p) == Free(p) /\ started < MaxRequests /\ \A q \in 1..(p - 1) : ~Free(q)

EmptyTables ==
  /\ players = << >>
  /\ rooms = << >>
  /\ pir = << >>
  /\ invitations = << >>

NoRequests ==
  /\ req = [p \in Procs |-> Idle]
  /\ leased = 0
  /\ started = 0
  /\ upserts = [a \in AllAddresses |-> [n |-> 0, max |-> 0]]
  /\ awards = [a \in AllAddresses |-> [inviter |-> 0, invitee |-> 0]]

\* the server after start-up, on an empty database
Init == EmptyTables /\ NoRequests

----------------------------------------------------------------------------
(* The connection pool *)

\* the statement a handler runs first on its connection
FirstPc(op) ==
  CASE op = "assign-room" -> "selectExisting"
    [] op = "submit-score" -> "upsert"
    [] op = "submit-invite" -> "selectInvitation"
    [] op = "apply-bonus" -> "selectUnapplied"
    [] op = "leaderboard" -> "query"
    [] op = "hall-of-fame" -> "query"
    [] op = "player-stats" -> "query"
    [] op = "check-user" -> "query"
    [] op = "invites-count" -> "query"
    [] OTHER -> "done"

\* await pool.getConnection(): resolves when fewer than connectionLimit are out
GetConnection(p) ==
  /\ req[p].pc = "getConnection"
  /\ leased < connectionLimit
  /\ leased' = leased + 1
  /\ req' = [req EXCEPT ![p].conn = TRUE, ![p].pc = FirstPc(req[p].op)]
  /\ UNCHANGED << tables, started, upserts, awards >>

\* connection.release() followed by the response
Release(r, code) == Answered(r, code)

\* catch (error) { res.status(500) }: the connection is not released
Caught(r) == [Answered(r, 500) EXCEPT !.conn = r.conn]

\* the routes of the older server: one shared connection, no pool
LegacyOps == {"submit-score-legacy", "hall-of-fame-legacy"}

\* a store call (or getConnection) rejects: the handler's catch block answers 500
StoreError(p) ==
  /\ req[p].pc # "done"
  /\ req[p].op \notin LegacyOps
  /\ req' = [req EXCEPT ![p] = Caught(req[p])]
  /\ UNCHANGED << tables, leased, started, upserts, awards >>

----------------------------------------------------------------------------
(* POST /assign-room *)

\* SELECT room_id FROM players_in_room WHERE userAddress = ?
MembershipsOf(a) == SelectSeq(pir, LAMBDA row : row.userAddress = a)

\* the unique key of players_in_room(address): an INSERT of a present address is rejected
PirDuplicateKey(a) == Len(MembershipsOf(a)) > 0

\* COUNT(pir.userAddress) of the LEFT JOIN, per room
PlayerCount(r) == Cardinality({i \in DOMAIN pir : pir[i].room_id = r})

\* WHERE r.status = "available" GROUP BY r.id HAVING player_count < 48
AvailableRooms ==
  {r \in DOMAIN rooms : rooms[r].status = "available" /\ PlayerCount(r) < Capacity}

\* result.insertId of the AUTO_INCREMENT key (no row of rooms is ever deleted)
NextRoomId == Cardinality(DOMAIN rooms) + 1

\* a repeated call answers the newest room instead of the player's own
NewestRoomId(existingRoom) == Cardinality(DOMAIN rooms)

\* roomId: existingRoom[0].room_id
ExistingRoomId(existingRoom) == existingRoom[1].room_id

AssignRoomStart(p, a) ==
  /\ CanStart(p)
  /\ req' = [req EXCEPT ![p] = NewRequest("assign-room", a, Undefined, Undefined)]
  /\ started' = started + 1
  /\ UNCHANGED << tables, leased, upserts, awards >>

\* the existingRoom query and the early return of a player who has a room
AssignRoomSelectExisting(p) ==
  /\ req[p].op = "assign-room" /\ req[p].pc = "selectExisting"
  /\ req[p].userAddress # undefined
  /\ IF Len(MembershipsOf(req[p].userAddress)) > 0
       THEN /\ req' = [req EXCEPT ![p] =
                 [Release(req[p], 200) EXCEPT
                    !.resRoomId = ExistingRoomId(MembershipsOf(req[p].userAddress))]]
            /\ leased' = leased - 1
       ELSE /\ req' = [req EXCEPT ![p].pc = "selectAvailable"]
            /\ UNCHANGED leased
  /\ UNCHANGED << tables, started, upserts, awards >>

\* binding undefined as a statement parameter throws before the store is reached
AssignRoomBindUndefined(p) ==
  /\ req[p].op = "assign-room" /\ req[p].pc = "selectExisting"
  /\ req[p].userAddress = undefined
  /\ req' = [req EXCEPT ![p] = Caught(req[p])]
  /\ UNCHANGED << tables, leased, started, upserts, awards >>

\* SELECT ... HAVING player_count < 48 LIMIT 1 (no ORDER BY: any such room)
AssignRoomSelectAvailable(p) ==
  /\ req[p].op = "assign-room" /\ req[p].pc = "selectAvailable"
  /\ IF AvailableRooms = {}
       THEN req' = [req EXCEPT ![p].pc = "insertRoom"]
       ELSE \E r \in AvailableRooms :
              req' = [req EXCEPT ![p].pc = "insertMembership", ![p].roomId = r]
  /\ UNCHANGED << tables, leased, started, upserts, awards >>

\* INSERT INTO rooms (room_name, status) VALUES (?, 'available')
AssignRoomInsertRoom(p) ==
  /\ req[p].op = "assign-room" /\ req[p].pc = "insertRoom"
  /\ rooms' = (NextRoomId :> [status |-> "available"]) @@ rooms
  /\ req' = [req EXCEPT ![p].pc = "insertMembership", ![p].roomId = NextRoomId]
  /\ UNCHANGED << players, pir, invitations, leased, started, upserts, awards >>

\* INSERT INTO players_in_room (userAddress, room_id) VALUES (?, ?)
AssignRoomInsertMembership(p) ==
  /\ req[p].op = "assign-room" /\ req[p].pc = "insertMembership"
  /\ IF PirDuplicateKey(req[p].userAddress)
       THEN /\ req' = [req EXCEPT ![p] = Caught(req[p])]
            /\ UNCHANGED << pir, leased >>
       ELSE /\ pir' = Append(pir, [userAddress |-> req[p].userAddress,
                                   room_id |-> req[p].roomId])
            /\ req' = [req EXCEPT ![p] =
                 [Release(req[p], 200) EXCEPT !.resRoomId = req[p].roomId]]
            /\ leased' = leased - 1
  /\ UNCHANGED << players, rooms, invitations, started, upserts, awards >>

\* the userAddress values of the modelled /assign-room requests: the players',
\* and an empty and a missing one
AssignRoomInputs == Wallets \cup {"", undefined}

\* /assign-room called with players' addresses
NextRooms ==
  \E p \in Procs :
    \/ \E a \in Wallets : AssignRoomStart(p, a)
    \/ GetConnection(p)
    \/ StoreError(p)
    \/ AssignRoomSelectExisting(p)
    \/ AssignRoomSelectAvailable(p)
    \/ AssignRoomInsertRoom(p)
    \/ AssignRoomInsertMembership(p)

\* /assign-room called with any body
NextRoomsAnyBody ==
  \/ NextRooms
  \/ \E p \in Procs :
       \/ \E a \in AssignRoomInputs \ Wallets : AssignRoomStart(p, a)
       \/ AssignRoomBindUndefined(p)

\* a database in which room 1 already holds k members (k sequential assignments)
RoomPrefilled(k) ==
  /\ players = << >>
  /\ invitations = << >>
  /\ rooms = IF k = 0 THEN << >> ELSE (1 :> [status |-> "available"])
  /\ pir = [i \in 1..k |-> [userAddress |-> FillerSeq[i], room_id |-> 1]]

InitRooms ==
  /\ \E k \in {0, Capacity - 2, Capacity - 1} : RoomPrefilled(k)
  /\ NoRequests

SpecRooms == InitRooms /\ [][NextRooms]_vars

SpecRoomsAnyBody == InitRooms /\ [][NextRoomsAnyBody]_vars

----------------------------------------------------------------------------
(* The players and invitations tables *)

\* the upsert with score = VALUES(score) in place of GREATEST(score, VALUES(score))
UpsertPlayerLastWrite(tbl, a, s, tb) ==
  IF a \in DOMAIN tbl
    THEN [tbl EXCEPT ![a] = [@ EXCEPT !.score = s,
                                      !.tokenBalance = tb,
                                      !.gamesPlayed = @ + 1]]
    ELSE (a :> [score |-> s, tokenBalance |-> tb, gamesPlayed |-> 1,
                bonusReceived |-> FALSE]) @@ tbl

\* INSERT INTO players ... VALUES (?, ?, ?, 1, NOW()) ON DUPLICATE KEY UPDATE
\*   score = GREATEST(score, VALUES(score)), tokenBalance = VALUES(tokenBalance),
\*   gamesPlayed = gamesPlayed + 1
\* (bonusReceived is left to its column default on insert)
UpsertPlayer(tbl, a, s, tb) ==
  IF a \in DOMAIN tbl
    THEN [tbl EXCEPT ![a] = [@ EXCEPT !.score = Max(@, s),
                                      !.tokenBalance = tb,
                                      !.gamesPlayed = @ + 1]]
    ELSE (a :> [score |-> s, tokenBalance |-> tb, gamesPlayed |-> 1,
                bonusReceived |-> FALSE]) @@ tbl

\* UPDATE players SET score = score + ?, bonusReceived = TRUE WHERE userAddress = ?
AddBonus(tbl, a, bonus) ==
  IF a \in DOMAIN tbl
    THEN [tbl EXCEPT ![a] = [@ EXCEPT !.score = @ + bonus, !.bonusReceived = TRUE]]
    ELSE tbl

\* SELECT * FROM invitations WHERE inviteeAddress = ?
InvitationsOf(a) == SelectSeq(invitations, LAMBDA row : row.inviteeAddress = a)

\* SELECT * FROM invitations WHERE inviteeAddress = ? AND bonusApplied = FALSE
UnappliedInvitations(a) ==
  SelectSeq(invitations, LAMBDA row : row.inviteeAddress = a /\ ~row.bonusApplied)

\* UPDATE invitations SET bonusApplied = TRUE WHERE inviteeAddress = ?
MarkApplied(tbl, a) ==
  [i \in DOMAIN tbl |->
     IF tbl[i].inviteeAddress = a THEN [tbl[i] EXCEPT !.bonusApplied = TRUE] ELSE tbl[i]]

\* the unique key of invitations(inviteeAddress): an INSERT of a present invitee is rejected
InvitationDuplicateKey(a) == Len(InvitationsOf(a)) > 0

\* history: one more bonus UPDATE changed a row, for invitee a's invitation
Awarded(a, role, target) ==
  IF target \in DOMAIN players
    THEN [awards EXCEPT ![a] = [@ EXCEPT ![role] = @ + 1]]
    ELSE awards

----------------------------------------------------------------------------
(* POST /submit-score *)

\* if (!userAddress) 400; if (isNaN(score) || score < 0) 400
SubmitScoreStart(p, a, s, tb) ==
  /\ CanStart(p)
  /\ req' = [req EXCEPT ![p] =
       IF FalsyAddress(a) \/ isNaN(s) \/ LessThanZero(s)
         THEN Rejected("submit-score", a, s, tb, 400)
         ELSE NewRequest("submit-score", a, s, tb)]
  /\ started' = started + 1
  /\ UNCHANGED << tables, leased, upserts, awards >>

\* connection.execute(query, [userAddress, score || 0, tokenBalance ?? 0])
SubmitScoreUpsert(p) ==
  /\ req[p].op = "submit-score" /\ req[p].pc = "upsert"
  /\ players' = UpsertPlayer(players, req[p].userAddress, OrZero(req[p].score),
                             NullishZero(req[p].tokenBalance))
  /\ upserts' = [upserts EXCEPT ![req[p].userAddress] =
                   [n |-> @.n + 1, max |-> Max(@.max, OrZero(req[p].score))]]
  /\ req' = [req EXCEPT ![p].pc = "selectUnapplied"]
  /\ UNCHANGED << rooms, pir, invitations, leased, started, awards >>

\* the invite query and, with no unapplied invitation, the release and the answer
SubmitScoreSelectInvite(p) ==
  /\ req[p].op = "submit-score" /\ req[p].pc = "selectUnapplied"
  /\ IF Len(UnappliedInvitations(req[p].userAddress)) > 0
       THEN /\ req' = [req EXCEPT
                 ![p].pc = "bonusInviter",
                 ![p].inviterAddress = UnappliedInvitations(req[p].userAddress)[1].inviterAddress]
            /\ UNCHANGED leased
       ELSE /\ req' = [req EXCEPT ![p] = Release(req[p], 200)]
            /\ leased' = leased - 1
  /\ UNCHANGED << tables, started, upserts, awards >>

\* bonus = Math.floor(score * 0.5); UPDATE players ... WHERE userAddress = inviterAddress
SubmitScoreBonusInviter(p) ==
  /\ req[p].op = "submit-score" /\ req[p].pc = "bonusInviter"
  /\ players' = AddBonus(players, req[p].inviterAddress, HalfFloor(req[p].score))
  /\ awards' = Awarded(req[p].userAddress, "inviter", req[p].inviterAddress)
  /\ req' = [req EXCEPT ![p].pc = "bonusInvitee"]
  /\ UNCHANGED << rooms, pir, invitations, leased, started, upserts >>

\* UPDATE players ... WHERE userAddress = userAddress
SubmitScoreBonusInvitee(p) ==
  /\ req[p].op = "submit-score" /\ req[p].pc = "bonusInvitee"
  /\ players' = AddBonus(players, req[p].userAddress, HalfFloor(req[p].score))
  /\ awards' = Awarded(req[p].userAddress, "invitee", req[p].userAddress)
  /\ req' = [req EXCEPT ![p].pc = "markApplied"]
  /\ UNCHANGED << rooms, pir, invitations, leased, started, upserts >>

\* UPDATE invitations SET bonusApplied = TRUE; release; 200
SubmitScoreMarkApplied(p) ==
  /\ req[p].op = "submit-score" /\ req[p].pc = "markApplied"
  /\ invitations' = MarkApplied(invitations, req[p].userAddress)
  /\ req' = [req EXCEPT ![p] = Release(req[p], 200)]
  /\ leased' = leased - 1
  /\ UNCHANGED << players, rooms, pir, started, upserts, awards >>

----------------------------------------------------------------------------
(* POST /submit-invite *)

\* if (!code) 400
SubmitInviteStart(p, code) ==
  /\ CanStart(p)
  /\ req' = [req EXCEPT ![p] =
       IF FalsyAddress(code)
         THEN Rejected("submit-invite", code, Undefined, Undefined, 400)
         ELSE NewRequest("submit-invite", code, Undefined, Undefined)]
  /\ started' = started + 1
  /\ UNCHANGED << tables, leased, upserts, awards >>

\* the handler without its existing-invitation check
SubmitInviteSelectUnchecked(p) ==
  /\ req[p].op = "submit-invite" /\ req[p].pc = "selectInvitation"
  /\ req' = [req EXCEPT ![p].pc = "insertInvitation"]
  /\ UNCHANGED << tables, leased, started, upserts, awards >>

\* SELECT * FROM invitations WHERE inviteeAddress = ?; 400 when one exists
SubmitInviteSelect(p) ==
  /\ req[p].op = "submit-invite" /\ req[p].pc = "selectInvitation"
  /\ IF Len(InvitationsOf(req[p].userAddress)) > 0
       THEN /\ req' = [req EXCEPT ![p] = Release(req[p], 400)]
            /\ leased' = leased - 1
       ELSE /\ req' = [req EXCEPT ![p].pc = "insertInvitation"]
            /\ UNCHANGED leased
  /\ UNCHANGED << tables, started, upserts, awards >>

\* INSERT INTO invitations (inviterAddress, inviteeAddress)
\*   VALUES ('sample-inviter-address', code)
SubmitInviteInsert(p) ==
  /\ req[p].op = "submit-invite" /\ req[p].pc = "insertInvitation"
  /\ IF InvitationDuplicateKey(req[p].userAddress)
       THEN /\ req' = [req EXCEPT ![p] = Caught(req[p])]
            /\ UNCHANGED << invitations, leased >>
       ELSE /\ invitations' = Append(invitations,
                 [inviterAddress |-> SampleInviter,
                  inviteeAddress |-> req[p].userAddress,
                  bonusApplied |-> FALSE])
            /\ req' = [req EXCEPT ![p] = Release(req[p], 200)]
            /\ leased' = leased - 1
  /\ UNCHANGED << players, rooms, pir, started, upserts, awards >>

\* the code values of the modelled /submit-invite requests
InviteCodes == Wallets \cup {undefined}

\* /submit-invite alone
NextInvite ==
  \E p \in Procs :
    \/ \E code \in InviteCodes : SubmitInviteStart(p, code)
    \/ GetConnection(p)
    \/ StoreError(p)
    \/ SubmitInviteSelect(p)
    \/ SubmitInviteInsert(p)

SpecInvite == Init /\ [][NextInvite]_vars

----------------------------------------------------------------------------
(* POST /apply-bonus *)

\* if (!inviteeAddress || !score) 400 (the refused score stays on record)
ApplyBonusStart(p, a, s) ==
  /\ CanStart(p)
  /\ req' = [req EXCEPT ![p] =
       IF FalsyAddress(a) \/ Falsy(s)
         THEN [Rejected("apply-bonus", a, s, Undefined, 400) EXCEPT !.score = s]
         ELSE NewRequest("apply-bonus", a, s, Undefined)]
  /\ started' = started + 1
  /\ UNCHANGED << tables, leased, upserts, awards >>

\* the unapplied-invitation query; 400 when there is none
ApplyBonusSelect(p) ==
  /\ req[p].op = "apply-bonus" /\ req[p].pc = "selectUnapplied"
  /\ IF Len(UnappliedInvitations(req[p].userAddress)) = 0
       THEN /\ req' = [req EXCEPT ![p] = Release(req[p], 400)]
            /\ leased' = leased - 1
       ELSE /\ req' = [req EXCEPT
                 ![p].pc = "bonusInviter",
                 ![p].inviterAddress = UnappliedInvitations(req[p].userAddress)[1].inviterAddress]
            /\ UNCHANGED leased
  /\ UNCHANGED << tables, started, upserts, awards >>

\* bonus = Math.floor(score * 0.5); UPDATE players ... WHERE userAddress = inviterAddress
ApplyBonusInviter(p) ==
  /\ req[p].op = "apply-bonus" /\ req[p].pc = "bonusInviter"
  /\ players' = AddBonus(players, req[p].inviterAddress, HalfFloor(req[p].score))
  /\ awards' = Awarded(req[p].userAddress, "inviter", req[p].inviterAddress)
  /\ req' = [req EXCEPT ![p].pc = "bonusInvitee"]
  /\ UNCHANGED << rooms, pir, invitations, leased, started, upserts >>

\* UPDATE players ... WHERE userAddress = inviteeAddress
ApplyBonusInvitee(p) ==
  /\ req[p].op = "apply-bonus" /\ req[p].pc = "bonusInvitee"
  /\ players' = AddBonus(players, req[p].userAddress, HalfFloor(req[p].score))
  /\ awards' = Awarded(req[p].userAddress, "invitee", req[p].userAddress)
  /\ req' = [req EXCEPT ![p].pc = "markApplied"]
  /\ UNCHANGED << rooms, pir, invitations, leased, started, upserts >>

\* UPDATE invitations SET bonusApplied = TRUE; release; 200
ApplyBonusMarkApplied(p) ==
  /\ req[p].op = "apply-bonus" /\ req[p].pc = "markApplied"
  /\ invitations' = MarkApplied(invitations, req[p].userAddress)
  /\ req' = [req EXCEPT ![p] = Release(req[p], 200)]
  /\ leased' = leased - 1
  /\ UNCHANGED << players, rooms, pir, started, upserts, awards >>

----------------------------------------------------------------------------
(* The score and referral requests that are modelled *)

\* userAddress values of /submit-score: an invitee, the recorded inviter, none
ScoreAddresses == {"a1", SampleInviter, undefined}

\* code values of /submit-invite and inviteeAddress values of /apply-bonus
InviteeAddresses == {"a1", undefined}

\* score values of /submit-score
SubmitScores == {Undefined, Null, Num(-5), Num(0), Num(7)}

\* tokenBalance values of /submit-score
TokenBalances == {Undefined, Num(3)}

\* score values of /apply-bonus
BonusScores == {Num(0), Num(-5), Num(7)}

\* the arrival of a score or referral request with a body drawn from the given values
ScoreRequests(addresses, scores, balances, invitees, bonusScores) ==
  \E p \in Procs :
    \/ \E a \in addresses, s \in scores, tb \in balances : SubmitScoreStart(p, a, s, tb)
    \/ \E a \in invitees : SubmitInviteStart(p, a)
    \/ \E a \in invitees, s \in bonusScores : ApplyBonusStart(p, a, s)

\* a step of a score or referral handler
ScoreSteps ==
  \E p \in Procs :
    \/ GetConnection(p)
    \/ StoreError(p)
    \/ SubmitScoreUpsert(p)
    \/ SubmitScoreSelectInvite(p)
    \/ SubmitScoreBonusInviter(p)
    \/ SubmitScoreBonusInvitee(p)
    \/ SubmitScoreMarkApplied(p)
    \/ SubmitInviteSelect(p)
    \/ SubmitInviteInsert(p)
    \/ ApplyBonusSelect(p)
    \/ ApplyBonusInviter(p)
    \/ ApplyBonusInvitee(p)
    \/ ApplyBonusMarkApplied(p)

\* the three routes called with any body
NextScores ==
  \/ ScoreRequests(ScoreAddresses, SubmitScores, TokenBalances, InviteeAddresses, BonusScores)
  \/ ScoreSteps

\* the three routes called with well-formed bodies only: addresses present,
\* scores positive numbers
NextReferral ==
  \/ ScoreRequests({"a1", SampleInviter}, {Num(4), Num(7)}, {Num(3)}, {"a1"}, {Num(7)})
  \/ ScoreSteps

SpecReferral == Init /\ [][NextReferral]_vars

SpecScores == Init /\ [][NextScores]_vars

\* the two /submit-score statements alone, on a database without invitations
NextSubmit ==
  \E p \in Procs :
    \/ \E a \in ScoreAddresses, s \in SubmitScores, tb \in TokenBalances :
         SubmitScoreStart(p, a, s, tb)
    \/ GetConnection(p)
    \/ StoreError(p)
    \/ SubmitScoreUpsert(p)
    \/ SubmitScoreSelectInvite(p)

SpecSubmit == Init /\ [][NextSubmit]_vars

\* a database after /submit-score calls by "a1" (and, or not, by the recorded
\* inviter) and a /submit-invite call with code "a1"
InvitedDatabase(inviterPlays) ==
  /\ players = [a \in {"a1"} \cup (IF inviterPlays THEN {SampleInviter} ELSE {}) |->
                  [score |-> 4, tokenBalance |-> 3, gamesPlayed |-> 1,
                   bonusReceived |-> FALSE]]
  /\ rooms = << >>
  /\ pir = << >>
  /\ invitations = << [inviterAddress |-> SampleInviter, inviteeAddress |-> "a1",
                       bonusApplied |-> FALSE] >>
  /\ req = [p \in Procs |-> Idle]
  /\ leased = 0
  /\ started = 0
  /\ upserts = [a \in AllAddresses |->
                  IF a \in DOMAIN players THEN [n |-> 1, max |-> 4] ELSE [n |-> 0, max |-> 0]]
  /\ awards = [a \in AllAddresses |-> [inviter |-> 0, invitee |-> 0]]

InitInvited == \E inviterPlays \in BOOLEAN : InvitedDatabase(inviterPlays)

\* no request is in flight: a client that issues its next request, or repeats
\* one, after the answer to the last
AllAnswered == \A q \in Procs : Free(q)

\* /apply-bonus and /submit-score for an invited player, one request at a time
NextBonus ==
  \E p \in Procs :
    \/ AllAnswered /\ \E s \in {Num(4), Num(7)} : ApplyBonusStart(p, "a1", s)
    \/ AllAnswered /\ \E s \in {Num(4), Num(7)} : SubmitScoreStart(p, "a1", s, Num(3))
    \/ GetConnection(p)
    \/ StoreError(p)
    \/ SubmitScoreUpsert(p)
    \/ SubmitScoreSelectInvite(p)
    \/ SubmitScoreBonusInviter(p)
    \/ SubmitScoreBonusInvitee(p)
    \/ SubmitScoreMarkApplied(p)
    \/ ApplyBonusSelect(p)
    \/ ApplyBonusInviter(p)
    \/ ApplyBonusInvitee(p)
    \/ ApplyBonusMarkApplied(p)

SpecBonus == InitInvited /\ [][NextBonus]_vars

----------------------------------------------------------------------------
(* POST /submit-score of the older server (one shared connection, no pool) *)

\* INSERT INTO players (userAddress, score, tokenBalance) VALUES (?, ?, ?)
\*   ON DUPLICATE KEY UPDATE score = GREATEST(score, VALUES(score)),
\*                           tokenBalance = VALUES(tokenBalance)
\* gamesPlayed is not named: an existing row keeps its value.  A new row gets
\* the column default, which the source does not show; it is taken to be the 1
\* the pooled server inserts.
LegacyUpsertPlayer(tbl, a, s, tb) ==
  IF a \in DOMAIN tbl
    THEN [tbl EXCEPT ![a] = [@ EXCEPT !.score = Max(@, s), !.tokenBalance = tb]]
    ELSE (a :> [score |-> s, tokenBalance |-> tb, gamesPlayed |-> 1,
                bonusReceived |-> FALSE]) @@ tbl

\* if (!userAddress) 400; no check of score
LegacySubmitScoreStart(p, a, s, tb) ==
  /\ CanStart(p)
  /\ req' = [req EXCEPT ![p] =
       IF FalsyAddress(a)
         THEN Rejected("submit-score-legacy", a, s, tb, 400)
         ELSE [NewRequest("submit-score-legacy", a, s, tb) EXCEPT !.pc = "execute"]]
  /\ started' = started + 1
  /\ UNCHANGED << tables, leased, upserts, awards >>

\* db.execute(query, [userAddress, score, tokenBalance], callback) without error
LegacySubmitScoreExecute(p) ==
  /\ req[p].op = "submit-score-legacy" /\ req[p].pc = "execute"
  /\ players' = LegacyUpsertPlayer(players, req[p].userAddress, req[p].score.v,
                                   req[p].tokenBalance.v)
  /\ req' = [req EXCEPT ![p] = Answered(req[p], 200)]
  /\ UNCHANGED << rooms, pir, invitations, leased, started, upserts, awards >>

\* the callback's err branch: 500
LegacySubmitScoreError(p) ==
  /\ req[p].op = "submit-score-legacy" /\ req[p].pc = "execute"
  /\ req' = [req EXCEPT ![p] = Answered(req[p], 500)]
  /\ UNCHANGED << tables, leased, started, upserts, awards >>

\* score and tokenBalance values of the older /submit-score: numbers only (a
\* missing field is bound as NULL, whose fate depends on the column's
\* nullability, which the source does not show)
LegacyScores == {Num(-5), Num(0), Num(7)}
LegacyTokenBalances == {Num(0), Num(3)}

\* both servers' /submit-score against the same players table
NextLegacy ==
  \/ NextSubmit
  \/ \E p \in Procs :
       \/ \E a \in ScoreAddresses, s \in LegacyScores, tb \in LegacyTokenBalances :
            LegacySubmitScoreStart(p, a, s, tb)
       \/ LegacySubmitScoreExecute(p)
       \/ LegacySubmitScoreError(p)

SpecLegacy == Init /\ [][NextLegacy]_vars

----------------------------------------------------------------------------
(* GET /leaderboard/:roomId *)

\* players p JOIN players_in_room pir ON p.userAddress = pir.userAddress
\*   WHERE pir.room_id = ?     (the joined rows, named by their membership row)
JoinedRows(r) ==
  {i \in DOMAIN pir : pir[i].room_id = r /\ pir[i].userAddress \in DOMAIN players}

StoredScore(i) == players[pir[i].userAddress].score

\* the row ORDER BY p.score DESC puts first among S; MySQL leaves the order of
\* equal scores open: tie chooses between the earliest and the latest membership
First(S, tie) ==
  CHOOSE i \in S :
    \A j \in S \ {i} :
      \/ StoredScore(i) > StoredScore(j)
      \/ StoredScore(i) = StoredScore(j) /\ (IF tie = "earliest" THEN i < j ELSE i > j)

RECURSIVE OrderByScoreDesc(_, _, _)
\* SELECT p.userAddress, p.score ... ORDER BY p.score DESC LIMIT limit
OrderByScoreDesc(S, limit, tie) ==
  IF S = {} \/ limit = 0
    THEN << >>
    ELSE LET i == First(S, tie)
         IN  << [userAddress |-> pir[i].userAddress, score |-> StoredScore(i)] >>
               \o OrderByScoreDesc(S \ {i}, limit - 1, tie)

\* the position bonus with the fifth entry left out instead of the sixth
PositionBonusOffByOne(results) ==
  IF Len(results) < BonusRank
    THEN results
    ELSE LET bonus == results[BonusRank].score \div PositionBonusDivisor
         IN  [i \in DOMAIN results |->
                IF i # BonusRank - 1
                  THEN [results[i] EXCEPT !.score = @ + bonus]
                  ELSE results[i]]

\* if (results.length < 6) return results;
\* bonus = Math.floor(results[5].score / 10); every entry but results[5] gets + bonus
PositionBonus(results) ==
  IF Len(results) < BonusRank
    THEN results
    ELSE LET bonus == results[BonusRank].score \div PositionBonusDivisor
         IN  [i \in DOMAIN results |->
                IF i # BonusRank
                  THEN [results[i] EXCEPT !.score = @ + bonus]
                  ELSE results[i]]

LeaderboardStart(p, r) ==
  /\ CanStart(p)
  /\ req' = [req EXCEPT ![p] =
       [NewRequest("leaderboard", "", Undefined, Undefined) EXCEPT !.paramRoomId = r]]
  /\ started' = started + 1
  /\ UNCHANGED << tables, leased, upserts, awards >>

\* the handler with the position bonus stored: UPDATE players SET score = the
\* score shown, for every listed player
LeaderboardQueryWriteBack(p) ==
  /\ req[p].op = "leaderboard" /\ req[p].pc = "query"
  /\ \E tie \in {"earliest", "latest"} :
       LET shown == PositionBonus(OrderByScoreDesc(JoinedRows(req[p].paramRoomId),
                                                  LeaderboardLimit, tie))
           listed == {shown[i].userAddress : i \in DOMAIN shown}
       IN  /\ req' = [req EXCEPT ![p] = [Release(req[p], 200) EXCEPT !.resRows = shown]]
           /\ players' = [a \in DOMAIN players |->
                 IF a \in listed
                   THEN [players[a] EXCEPT !.score =
                           shown[CHOOSE i \in DOMAIN shown : shown[i].userAddress = a].score]
                   ELSE players[a]]
  /\ leased' = leased - 1
  /\ UNCHANGED << rooms, pir, invitations, started, upserts, awards >>

\* the query, the bonus over its result, the release and res.json
LeaderboardQuery(p) ==
  /\ req[p].op = "leaderboard" /\ req[p].pc = "query"
  /\ \E tie \in {"earliest", "latest"} :
       req' = [req EXCEPT ![p] =
         [Release(req[p], 200) EXCEPT !.resRows =
            PositionBonus(OrderByScoreDesc(JoinedRows(req[p].paramRoomId),
                                           LeaderboardLimit, tie))]]
  /\ leased' = leased - 1
  /\ UNCHANGED << tables, started, upserts, awards >>

----------------------------------------------------------------------------
(* The databases the ranked views are read on *)

\* the players of room 1
RankedSeq ==
  << "p01", "p02", "p03", "p04", "p05", "p06", "p07", "p08", "p09", "p10",
     "p11", "p12" >>

\* the numbers of players room 1 may hold: none, below, at and above the
\* bonus rank, at and above the leaderboard's limit
PopulationSizes == {0, BonusRank - 1, BonusRank, BonusRank + 1,
                    LeaderboardLimit, LeaderboardLimit + 1}

\* the players whose score is drawn, and the scores drawn for them
DrawnRanks == 4..6
RankedScores == {57, 120}

\* the scores of the other players of room 1, in no order
FixedScore(i) ==
  CASE i = 1 -> 140
    [] i = 2 -> 150
    [] i = 3 -> 130
    [] i = 7 -> 120
    [] OTHER -> 30 + i

PlayerRow(sc) ==
  [score |-> sc, tokenBalance |-> 0, gamesPlayed |-> 1, bonusReceived |-> FALSE]

\* room 1 holds n players with scores sc and a member that never submitted a
\* score; room 2 holds one player with the highest score of all
RankedDatabase(n, sc) ==
  /\ players = [a \in {RankedSeq[i] : i \in 1..n} \cup {"a2"} |->
                  IF a = "a2" THEN PlayerRow(200)
                  ELSE PlayerRow(sc[CHOOSE i \in 1..n : RankedSeq[i] = a])]
  /\ rooms = << [status |-> "available"], [status |-> "available"] >>
  /\ pir = << [userAddress |-> "a1", room_id |-> 1],
              [userAddress |-> "a2", room_id |-> 2] >>
            \o [i \in 1..n |-> [userAddress |-> RankedSeq[i], room_id |-> 1]]
  /\ invitations = << >>

InitQuery ==
  /\ \E n \in PopulationSizes, drawn \in [DrawnRanks -> RankedScores] :
       RankedDatabase(n, [i \in 1..n |-> IF i \in DrawnRanks THEN drawn[i]
                                                            ELSE FixedScore(i)])
  /\ NoRequests

\* the :roomId values of the modelled reads
QueryRoomIds == {1, 2}

NextQuery ==
  \E p \in Procs :
    \/ \E r \in QueryRoomIds : LeaderboardStart(p, r)
    \/ GetConnection(p)
    \/ StoreError(p)
    \/ LeaderboardQuery(p)

SpecQuery == InitQuery /\ [][NextQuery]_vars

----------------------------------------------------------------------------
(* GET /hall-of-fame/:roomId, and GET /hall-of-fame of the older server *)

\* the room's hall of fame without its LIMIT
RoomHallOfFameUncut(r, tie) ==
  OrderByScoreDesc(JoinedRows(r), Cardinality(JoinedRows(r)), tie)

\* SELECT p.userAddress, p.score FROM players p JOIN players_in_room pir
\*   ON p.userAddress = pir.userAddress WHERE pir.room_id = ?
\*   ORDER BY p.score DESC LIMIT 48
RoomHallOfFame(r, tie) == OrderByScoreDesc(JoinedRows(r), HallOfFameLimit, tie)

\* the addresses in the order of the players table's key
KeyOrder == << "a1", "a2" >> \o FillerSeq \o RankedSeq \o << SampleInviter >>

KeyRank ==
  [a \in {KeyOrder[i] : i \in DOMAIN KeyOrder} |->
     CHOOSE i \in DOMAIN KeyOrder : KeyOrder[i] = a]

\* the row ORDER BY score DESC puts first among the players S; equal scores go
\* by the key, forwards or backwards
FirstPlayer(S, tie) ==
  CHOOSE a \in S :
    \A b \in S \ {a} :
      \/ players[a].score > players[b].score
      \/ /\ players[a].score = players[b].score
         /\ (IF tie = "earliest" THEN KeyRank[a] < KeyRank[b] ELSE KeyRank[a] > KeyRank[b])

RECURSIVE OrderPlayersByScoreDesc(_, _, _)
\* SELECT userAddress, score FROM players ORDER BY score DESC LIMIT limit
OrderPlayersByScoreDesc(S, limit, tie) ==
  IF S = {} \/ limit = 0
    THEN << >>
    ELSE LET a == FirstPlayer(S, tie)
         IN  << [userAddress |-> a, score |-> players[a].score] >>
               \o OrderPlayersByScoreDesc(S \ {a}, limit - 1, tie)

HallOfFameStart(p, r) ==
  /\ CanStart(p)
  /\ req' = [req EXCEPT ![p] =
       [NewRequest("hall-of-fame", "", Undefined, Undefined) EXCEPT !.paramRoomId = r]]
  /\ started' = started + 1
  /\ UNCHANGED << tables, leased, upserts, awards >>

\* the query, the release and res.json(results)
HallOfFameQuery(p) ==
  /\ req[p].op = "hall-of-fame" /\ req[p].pc = "query"
  /\ \E tie \in {"earliest", "latest"} :
       req' = [req EXCEPT ![p] =
         [Release(req[p], 200) EXCEPT !.resRows = RoomHallOfFame(req[p].paramRoomId, tie)]]
  /\ leased' = leased - 1
  /\ UNCHANGED << tables, started, upserts, awards >>

\* the older server's route takes no parameter and no pooled connection
LegacyHallOfFameStart(p) ==
  /\ CanStart(p)
  /\ req' = [req EXCEPT ![p] =
       [NewRequest("hall-of-fame-legacy", "", Undefined, Undefined) EXCEPT !.pc = "execute"]]
  /\ started' = started + 1
  /\ UNCHANGED << tables, leased, upserts, awards >>

\* db.query(query, callback) without error: res.json(results)
LegacyHallOfFameQuery(p) ==
  /\ req[p].op = "hall-of-fame-legacy" /\ req[p].pc = "execute"
  /\ \E tie \in {"earliest", "latest"} :
       req' = [req EXCEPT ![p] =
         [Answered(req[p], 200) EXCEPT !.resRows =
            OrderPlayersByScoreDesc(DOMAIN players, HallOfFameLimit, tie)]]
  /\ UNCHANGED << tables, leased, started, upserts, awards >>

\* the callback's err branch: 500
LegacyHallOfFameError(p) ==
  /\ req[p].op = "hall-of-fame-legacy" /\ req[p].pc = "execute"
  /\ req' = [req EXCEPT ![p] = Answered(req[p], 500)]
  /\ UNCHANGED << tables, leased, started, upserts, awards >>

----------------------------------------------------------------------------
(* GET /player-stats/:userAddress, POST /check-user, GET /invites-count/:userAddress *)

PlayerStatsStart(p, a) ==
  /\ CanStart(p)
  /\ req' = [req EXCEPT ![p] = NewRequest("player-stats", a, Undefined, Undefined)]
  /\ started' = started + 1
  /\ UNCHANGED << tables, leased, upserts, awards >>

\* SELECT score, gamesPlayed FROM players WHERE userAddress = ?; release;
\* the row as JSON, or 404 without one
PlayerStatsQuery(p) ==
  /\ req[p].op = "player-stats" /\ req[p].pc = "query"
  /\ req' = [req EXCEPT ![p] =
       IF req[p].userAddress \in DOMAIN players
         THEN [Release(req[p], 200) EXCEPT !.resRows =
                 << [userAddress |-> req[p].userAddress,
                     score |-> players[req[p].userAddress].score,
                     gamesPlayed |-> players[req[p].userAddress].gamesPlayed] >>]
         ELSE Release(req[p], 404)]
  /\ leased' = leased - 1
  /\ UNCHANGED << tables, started, upserts, awards >>

CheckUserStart(p, a) ==
  /\ CanStart(p)
  /\ req' = [req EXCEPT ![p] = NewRequest("check-user", a, Undefined, Undefined)]
  /\ started' = started + 1
  /\ UNCHANGED << tables, leased, upserts, awards >>

\* SELECT COUNT(*) AS count FROM players WHERE userAddress = ?; release;
\* isNewUser = (count === 0)
CheckUserQuery(p) ==
  /\ req[p].op = "check-user" /\ req[p].pc = "query"
  /\ req' = [req EXCEPT ![p] =
       [Release(req[p], 200) EXCEPT !.resRows =
          << [isNewUser |-> req[p].userAddress \notin DOMAIN players] >>]]
  /\ leased' = leased - 1
  /\ UNCHANGED << tables, started, upserts, awards >>

InvitesCountStart(p, a) ==
  /\ CanStart(p)
  /\ req' = [req EXCEPT ![p] = NewRequest("invites-count", a, Undefined, Undefined)]
  /\ started' = started + 1
  /\ UNCHANGED << tables, leased, upserts, awards >>

\* SELECT COUNT(*) AS inviteCount FROM invitations WHERE inviterAddress = ?
InviteCount(a) == Cardinality({i \in DOMAIN invitations : invitations[i].inviterAddress = a})

\* the count query, the release and res.json({ inviteCount })
InvitesCountQuery(p) ==
  /\ req[p].op = "invites-count" /\ req[p].pc = "query"
  /\ req' = [req EXCEPT ![p] =
       [Release(req[p], 200) EXCEPT !.resRows =
          << [inviteCount |-> InviteCount(req[p].userAddress)] >>]]
  /\ leased' = leased - 1
  /\ UNCHANGED << tables, started, upserts, awards >>

----------------------------------------------------------------------------
(* The database the other reads are made on *)

\* the players of a large room
FameSeq == FillerSeq \o RankedSeq

\* the numbers of players room 1 may hold: one below, at and one above the hall
\* of fame's limit
FameSizes == {HallOfFameLimit - 1, HallOfFameLimit, HallOfFameLimit + 1}

\* the players' scores, in no order and with equal scores among them (the
\* first and the seventh player's, for one)
FameScore(i) == ((i * 7) % 6) * 10 + 5 + (i \div 12)

\* room 1 holds n players and a member that never submitted a score; room 2
\* holds one player with the highest score of all; one invitation is pending
FameDatabase(n) ==
  /\ players = [a \in {FameSeq[i] : i \in 1..n} \cup {"a2"} |->
                  IF a = "a2" THEN PlayerRow(1000)
                  ELSE PlayerRow(FameScore(CHOOSE i \in 1..n : FameSeq[i] = a))]
  /\ rooms = << [status |-> "available"], [status |-> "available"] >>
  /\ pir = << [userAddress |-> "a1", room_id |-> 1],
              [userAddress |-> "a2", room_id |-> 2] >>
            \o [i \in 1..n |-> [userAddress |-> FameSeq[i], room_id |-> 1]]
  /\ invitations = << [inviterAddress |-> SampleInviter, inviteeAddress |-> "a1",
                       bonusApplied |-> FALSE] >>

InitFame ==
  /\ \E n \in FameSizes : FameDatabase(n)
  /\ NoRequests

\* the userAddress values of the modelled reads: a member without a players
\* row and a player, and for the invite count the recorded inviter and a player
ReadAddresses == {"a1", "a2"}
InviterAddresses == {SampleInviter, "a2"}

\* the two hall-of-fame routes
NextFame ==
  \E p \in Procs :
    \/ \E r \in QueryRoomIds : HallOfFameStart(p, r)
    \/ LegacyHallOfFameStart(p)
    \/ GetConnection(p)
    \/ StoreError(p)
    \/ HallOfFameQuery(p)
    \/ LegacyHallOfFameQuery(p)
    \/ LegacyHallOfFameError(p)

SpecFame == InitFame /\ [][NextFame]_vars

\* the reading routes of the pooled server
NextReads ==
  \E p \in Procs :
    \/ \E r \in QueryRoomIds : LeaderboardStart(p, r)
    \/ \E r \in QueryRoomIds : HallOfFameStart(p, r)
    \/ \E a \in ReadAddresses : PlayerStatsStart(p, a)
    \/ \E a \in ReadAddresses : CheckUserStart(p, a)
    \/ \E a \in InviterAddresses : InvitesCountStart(p, a)
    \/ GetConnection(p)
    \/ StoreError(p)
    \/ LeaderboardQuery(p)
    \/ HallOfFameQuery(p)
    \/ PlayerStatsQuery(p)
    \/ CheckUserQuery(p)
    \/ InvitesCountQuery(p)

\* room 1 with too few players for the position bonus, and with enough
InitReads ==
  /\ \E n \in {BonusRank - 1, BonusRank + 1} : FameDatabase(n)
  /\ NoRequests

SpecReads == InitReads /\ [][NextReads]_vars

----------------------------------------------------------------------------
(* The whole backend on an empty database *)

Next == NextRoomsAnyBody \/ NextScores \/ NextLegacy \/ NextQuery \/ NextFame \/ NextReads

Spec == Init /\ [][Next]_vars

----------------------------------------------------------------------------
(* Room allocator properties *)

\* C1: no room ever holds more than Capacity members, in any interleaving of
\* concurrent /assign-room calls.
C1_RoomNeverOverCapacity == \A r \in DOMAIN rooms : PlayerCount(r) <= Capacity

\* an /assign-room call that answered 200 with a room id
AssignedOk(p) == req[p].op = "assign-room" /\ req[p].pc = "done" /\ req[p].status = 200

\* C2: a player has at most one membership row, a membership row is never changed
\* or removed, and every /assign-room answer for the player carries the room id
\* of that row.
C2_OneMembershipForever ==
  /\ [](\A a \in AssignRoomInputs : Len(MembershipsOf(a)) <= 1)
  /\ [](\A p \in Procs : AssignedOk(p) =>
          /\ Len(MembershipsOf(req[p].userAddress)) = 1
          /\ MembershipsOf(req[p].userAddress)[1].room_id = req[p].resRoomId)
  /\ [][\A i \in DOMAIN pir : i \in DOMAIN pir' /\ pir'[i] = pir[i]]_vars

\* two calls for the same player have both answered, one of them by the early
\* return, while a second room exists
C2_Witness ==
  /\ Cardinality(DOMAIN rooms) = 2
  /\ \E p, q \in Procs :
       /\ p # q /\ AssignedOk(p) /\ AssignedOk(q)
       /\ req[p].userAddress = req[q].userAddress
       /\ req[p].resRoomId = 1

\* C12: whenever /assign-room inserts a membership row while some room holds
\* fewer than Capacity members, the row names the lowest-numbered such room.
C12_FirstFit ==
  [][(Len(pir') > Len(pir) /\ AvailableRooms # {})
       => \A r \in AvailableRooms : pir'[Len(pir')].room_id <= r]_vars

\* C13: /assign-room inserts a room row only when every existing room holds
\* Capacity members.
C13_NewRoomOnlyWhenAllFull ==
  [][Cardinality(DOMAIN rooms') > Cardinality(DOMAIN rooms) => AvailableRooms = {}]_vars

\* C16: an /assign-room call with an empty or missing userAddress is answered
\* 400 before it takes a connection or runs a statement, and no membership row
\* names such an address.
C16_EmptyAddressRejected ==
  /\ \A p \in Procs :
       (req[p].op = "assign-room" /\ FalsyAddress(req[p].userAddress))
       => req[p].pc = "done" /\ req[p].status = 400 /\ ~req[p].conn
  /\ \A i \in DOMAIN pir : ~FalsyAddress(pir[i].userAddress)

----------------------------------------------------------------------------
(* Score store and referral bonus properties *)

\* C3: the referral bonus of an invitation is added at most once to either
\* party, however many /submit-score and /apply-bonus calls for the invitee
\* run concurrently.
C3_BonusAwardedOnce ==
  \A a \in AllAddresses : awards[a].inviter <= 1 /\ awards[a].invitee <= 1

\* C4: no step lowers a player's stored score.
C4_ScoreNeverDecreases ==
  [][\A a \in DOMAIN players : players'[a].score >= players[a].score]_vars

\* a /submit-score handler for a has stored the score and read a's unapplied
\* invitation, and has not yet finished the bonus
MidSubmit(p, a) ==
  /\ req[p].op = "submit-score" /\ req[p].userAddress = a
  /\ req[p].pc \in {"bonusInviter", "bonusInvitee", "markApplied"}

\* C5: a submission by an invitee and its referral bonus are one unit: no state
\* shows the upsert without the bonus, one party's award without the other's,
\* or an award without bonusApplied, whether a handler is part-way or has
\* failed part-way.
C5_SubmissionAndBonusTogether ==
  \A a \in AllAddresses :
    /\ \A p \in Procs : ~MidSubmit(p, a)
    /\ Len(InvitationsOf(a)) > 0 =>
         /\ (awards[a].invitee > 0) = InvitationsOf(a)[1].bonusApplied
         /\ (awards[a].inviter > 0) = (awards[a].invitee > 0)

\* step of handler p that executes a /submit-score upsert (either server)
UpsertStep(p) ==
  \/ req[p].op = "submit-score" /\ req[p].pc = "upsert"
       /\ req'[p].pc = "selectUnapplied"
  \/ req[p].op = "submit-score-legacy" /\ req[p].pc = "execute"
       /\ req'[p].status = 200

\* C6: a valid submission for a player without a pending invitation turns an
\* existing row into score = max(existing, submitted), tokenBalance = submitted,
\* gamesPlayed + 1, and creates a missing row with the submitted score and
\* gamesPlayed = 1.
C6_UpsertSemantics ==
  [][\A p \in Procs :
       (/\ UpsertStep(p)
        /\ req[p].score.t = "number" /\ req[p].score.v >= 0
        /\ Len(UnappliedInvitations(req[p].userAddress)) = 0)
       => LET a == req[p].userAddress
              s == req[p].score.v
              tb == NullishZero(req[p].tokenBalance)
          IN  /\ a \in DOMAIN players'
              /\ players'[a].tokenBalance = tb
              /\ IF a \in DOMAIN players
                   THEN /\ players'[a].score = Max(players[a].score, s)
                        /\ players'[a].gamesPlayed = players[a].gamesPlayed + 1
                   ELSE /\ players'[a].score = s
                        /\ players'[a].gamesPlayed = 1]_vars

\* no invitation names a as its invitee or its inviter
NoInvitationInvolves(a) ==
  \A i \in DOMAIN invitations :
    invitations[i].inviteeAddress # a /\ invitations[i].inviterAddress # a

\* C7: no /submit-score upsert is lost: for a player no invitation involves,
\* gamesPlayed is the number of upserts the store executed for the player and
\* the score is the largest one submitted, in every interleaving.
C7_NoLostUpdate ==
  \A a \in AllAddresses :
    NoInvitationInvolves(a) =>
      IF upserts[a].n = 0
        THEN a \notin DOMAIN players
        ELSE /\ a \in DOMAIN players
             /\ players[a].gamesPlayed = upserts[a].n
             /\ players[a].score = upserts[a].max

\* two submissions for one player are in flight at once, both past their
\* upsert, the scores 7 and 0 having been submitted
C7_Witness ==
  /\ req[1].op = "submit-score" /\ req[1].pc = "selectUnapplied"
  /\ req[2].op = "submit-score" /\ req[2].pc = "selectUnapplied"
  /\ req[1].userAddress = req[2].userAddress
  /\ req[1].score = Num(7) /\ req[2].score = Num(0)
  /\ players[req[1].userAddress].gamesPlayed = 2

\* step that takes a /submit-score request past validation
SubmitAccepted(p) ==
  /\ Free(p)
  /\ req'[p].op = "submit-score" /\ req'[p].pc = "getConnection"

\* C8: /submit-score accepts only a score that is a non-negative number; any
\* other score is answered 400 and changes no table.
C8_MalformedScoreRejected ==
  [][\A p \in Procs :
       SubmitAccepted(p) => req'[p].score.t = "number" /\ req'[p].score.v >= 0]_vars

\* C9: bonusApplied is set only when the award was added to both the inviter's
\* and the invitee's score.
C9_FlagOnlyAfterBothAwards ==
  \A i \in DOMAIN invitations :
    invitations[i].bonusApplied =>
      /\ awards[invitations[i].inviteeAddress].inviter >= 1
      /\ awards[invitations[i].inviteeAddress].invitee >= 1

BonusApplied(a) ==
  Len(InvitationsOf(a)) > 0 /\ Len(UnappliedInvitations(a)) = 0

\* C15: once an invitation's bonus is applied, no step of an /apply-bonus call
\* for its invitee changes a player or an invitation and the call is answered
\* 400; and no /apply-bonus call, a retry after a failed attempt included, adds
\* the bonus to a party that has received it.
C15_ApplyBonusRetrySafe ==
  [][\A p \in Procs :
       (req[p].op = "apply-bonus" /\ req'[p] # req[p])
       => LET a == req[p].userAddress
          IN  /\ BonusApplied(a) =>
                   /\ players' = players /\ invitations' = invitations
                   /\ (req'[p].pc = "done" /\ req'[p].status # 500) => req'[p].status = 400
              /\ awards'[a].inviter <= 1
              /\ awards'[a].invitee <= 1]_vars

\* C17: a score of 0 is a score: a /submit-score request with an address and
\* the score 0 passes validation, so does an /apply-bonus request for an invitee
\* with an unapplied invitation, and a /submit-score upsert of 0 stores 0 for a
\* new player and keeps an existing player's score.
C17_ZeroIsAScore ==
  [][\A p \in Procs :
       /\ (/\ Free(p) /\ req'[p] # req[p]
           /\ req'[p].score = Num(0) /\ ~FalsyAddress(req'[p].userAddress)
           /\ \/ req'[p].op = "submit-score"
              \/ /\ req'[p].op = "apply-bonus"
                 /\ Len(UnappliedInvitations(req'[p].userAddress)) > 0)
          => req'[p].pc = "getConnection"
       /\ (/\ req[p].op = "submit-score" /\ req[p].pc = "upsert"
           /\ req'[p].pc = "selectUnapplied" /\ req[p].score = Num(0))
          => players'[req[p].userAddress].score =
               (IF req[p].userAddress \in DOMAIN players
                  THEN players[req[p].userAddress].score ELSE 0)]_vars

----------------------------------------------------------------------------
(* Ranked view properties *)

\* a /leaderboard call that answered 200
LeaderboardOk(p) == req[p].op = "leaderboard" /\ req[p].pc = "done" /\ req[p].status = 200

Stored(a) == players[a].score

\* C10: the leaderboard of a room lists the room's players by stored score
\* descending, 11 at most; below 6 entries every score is the stored one; from 6
\* entries on, with b = floor(stored score of the 6th / 10), the 6th shows its
\* stored score and every other entry its stored score + b.
C10_LeaderboardView ==
  \A p \in Procs :
    LeaderboardOk(p) =>
      LET rows == req[p].resRows
          room == JoinedRows(req[p].paramRoomId)
          listed == {rows[i].userAddress : i \in DOMAIN rows}
      IN  /\ Len(rows) <= LeaderboardLimit
          /\ Len(rows) = (IF Cardinality(room) < LeaderboardLimit
                            THEN Cardinality(room) ELSE LeaderboardLimit)
          /\ Cardinality(listed) = Len(rows)
          /\ listed \subseteq {pir[i].userAddress : i \in room}
          /\ \A i, j \in DOMAIN rows :
               i < j => Stored(rows[i].userAddress) >= Stored(rows[j].userAddress)
          /\ \A i \in room : \A a \in listed :
               pir[i].userAddress \notin listed => Stored(a) >= StoredScore(i)
          /\ IF Len(rows) < BonusRank
               THEN \A i \in DOMAIN rows : rows[i].score = Stored(rows[i].userAddress)
               ELSE LET b == Stored(rows[BonusRank].userAddress) \div PositionBonusDivisor
                    IN  \A i \in DOMAIN rows :
                          rows[i].score = Stored(rows[i].userAddress)
                                            + (IF i = BonusRank THEN 0 ELSE b)

\* a leaderboard of 11 entries cut from a room of 12 players, with a position
\* bonus that lifts the 7th entry above the 6th
C10_Witness ==
  \E p \in Procs :
    /\ LeaderboardOk(p)
    /\ Len(req[p].resRows) = LeaderboardLimit
    /\ Cardinality(JoinedRows(req[p].paramRoomId)) = LeaderboardLimit + 1
    /\ req[p].resRows[BonusRank + 1].score > req[p].resRows[BonusRank].score

\* a hall-of-fame call of either server that answered 200
HallOfFameOk(p) ==
  /\ req[p].op \in {"hall-of-fame", "hall-of-fame-legacy"}
  /\ req[p].pc = "done" /\ req[p].status = 200

\* the players a hall-of-fame call ranks: the requested room's, or all
Ranked(p) ==
  IF req[p].op = "hall-of-fame"
    THEN {pir[i].userAddress : i \in JoinedRows(req[p].paramRoomId)}
    ELSE DOMAIN players

\* C18: a hall of fame lists the 48 highest stored scores of the requested
\* room's players (of all players, on the older server's route), or all of them
\* when there are fewer, each player once, by stored score descending, and every
\* score shown is the stored one.
C18_HallOfFameView ==
  \A p \in Procs :
    HallOfFameOk(p) =>
      LET rows == req[p].resRows
          listed == {rows[i].userAddress : i \in DOMAIN rows}
      IN  /\ Len(rows) <= HallOfFameLimit
          /\ Len(rows) = (IF Cardinality(Ranked(p)) < HallOfFameLimit
                            THEN Cardinality(Ranked(p)) ELSE HallOfFameLimit)
          /\ Cardinality(listed) = Len(rows)
          /\ listed \subseteq Ranked(p)
          /\ \A i, j \in DOMAIN rows :
               i < j => Stored(rows[i].userAddress) >= Stored(rows[j].userAddress)
          /\ \A a \in Ranked(p) \ listed : \A b \in listed : Stored(b) >= Stored(a)
          /\ \A i \in DOMAIN rows : rows[i].score = Stored(rows[i].userAddress)

\* room 1 holds one player more than the limit; its hall of fame and the older
\* server's have both answered with 48 entries, the latter led by the player
\* of room 2
C18_Witness ==
  \E p, q \in Procs :
    /\ HallOfFameOk(p) /\ req[p].op = "hall-of-fame" /\ req[p].paramRoomId = 1
    /\ Cardinality(JoinedRows(1)) = HallOfFameLimit + 1
    /\ Len(req[p].resRows) = HallOfFameLimit
    /\ HallOfFameOk(q) /\ req[q].op = "hall-of-fame-legacy"
    /\ Len(req[q].resRows) = HallOfFameLimit
    /\ req[q].resRows[1].userAddress = "a2"

----------------------------------------------------------------------------
(* Read route properties *)

\* the reading routes of the pooled server
QueryOps == {"leaderboard", "hall-of-fame", "player-stats", "check-user", "invites-count"}

----------------------------------------------------------------------------
(* Connection pool properties *)

\* C19: once every request issued has been answered, whether with a result or
\* with the 500 of a catch block, no connection of the pool is checked out.
C19_ConnectionsReleased == AllAnswered => leased = 0

====
